---- MODULE Spec2Model ----
(***************************************************************************)
(* A model of redditgrambot.py: the message handler of a Telegram bot      *)
(* that answers media links and subreddit mentions with Reddit context.    *)
(*                                                                         *)
(* Texts are sequences of one-character strings, so that the regular       *)
(* expressions of the source are matched character by character.  The      *)
(* texts carry no line break (the only whitespace is the blank), so "."    *)
(* matches every character and "$" only the end of the text.               *)
(*                                                                         *)
(* The collaborators (Reddit client, downloader, Telegram) answer with a   *)
(* value of their range, and raise only where the source or its callers    *)
(* provide for it: the download (caught at line 203), the video upload,    *)
(* and subreddit.random() (ClientException, caught at line 112).           *)
(***************************************************************************)
EXTENDS Integers, Sequences, FiniteSets, TLC

(* ------------------------------------------------------------------ *)
(* Characters and literals                                            *)
(* ------------------------------------------------------------------ *)

Lower == {"a", "b", "c", "d", "e", "f", "g", "h", "i", "j", "k", "l", "m",
          "n", "o", "p", "q", "r", "s", "t", "u", "v", "w", "x", "y", "z"}
Upper == {"A", "B", "C", "D", "E", "F", "G", "H", "I", "J", "K", "L", "M",
          "N", "O", "P", "Q", "R", "S", "T", "U", "V", "W", "X", "Y", "Z"}
Digit == {"0", "1", "2", "3", "4", "5", "6", "7", "8", "9"}

\* [a-zA-Z0-9]
Alnum == Lower \cup Upper \cup Digit
\* [a-zA-Z0-9_] : the class of a subreddit name, and \w on these texts
WordChar == Alnum \cup {"_"}
\* [a-zA-Z0-9_-] : the class of a media id
IdChar == WordChar \cup {"-"}
\* \s on these texts
Space == {" "}

L_http == <<"h", "t", "t", "p">>
L_s == <<"s">>
L_colon_slashes == <<":", "/", "/">>
L_www == <<"w", "w", "w", ".">>
L_old == <<"o", "l", "d", ".">>
L_i == <<"i", ".">>
L_v == <<"v", ".">>
L_dot == <<".">>
L_slash == <<"/">>
L_gallery == <<"g", "a", "l", "l", "e", "r", "y", "/">>
L_a_slash == <<"a", "/">>
L_r == <<"/", "r", "/">>
L_com == <<"c", "o", "m">>
L_it == <<"i", "t">>
L_imgur == <<"i", "m", "g", "u", "r">>
L_gfycat == <<"g", "f", "y", "c", "a", "t">>
L_redd == <<"r", "e", "d", "d">>
L_streamable == <<"s", "t", "r", "e", "a", "m", "a", "b", "l", "e">>
L_gifv == <<"g", "i", "f", "v">>
L_webm == <<"w", "e", "b", "m">>
L_mp4 == <<"m", "p", "4">>
L_png == <<"p", "n", "g">>
L_jpg == <<"j", "p", "g">>
L_gif == <<"g", "i", "f">>
L_jpeg == <<"j", "p", "e", "g">>
L_https == <<"h", "t", "t", "p", "s", ":", "/", "/">>
L_reddit == <<"r", "e", "d", "d", "i", "t">>
L_com_r == <<"c", "o", "m", "/", "r", "/">>
L_comments == <<"/", "c", "o", "m", "m", "e", "n", "t", "s", "/">>
L_it_slash == <<"i", "t", "/">>
L_url == <<"u", "r", "l", ":">>

\* The hosts and the extensions of re_links, in the order of the alternation.
LinkHosts == <<L_imgur, L_gfycat, L_redd, L_streamable>>
LinkTlds == <<L_com, L_it>>
LinkExts == <<L_gifv, L_webm, L_mp4, L_png, L_jpg, L_gif, L_jpeg>>

(* ------------------------------------------------------------------ *)
(* Matching primitives.  A position is an index of the text; a match   *)
(* is reported as the index after its last character, 0 for no match.  *)
(* ------------------------------------------------------------------ *)

Min(S) == CHOOSE x \in S : \A y \in S : x <= y

Range(t) == {t[k] : k \in 1..Len(t)}

\* The literal lit stands in text t at position i.
HasAt(t, i, lit) ==
    /\ i >= 1
    /\ i + Len(lit) - 1 <= Len(t)
    /\ \A k \in 1..Len(lit) : t[i + k - 1] = lit[k]

\* A greedy optional literal: the position after it when it stands at i.
Opt(t, i, lit) == IF HasAt(t, i, lit) THEN i + Len(lit) ELSE i

\* A greedy run of characters of class C from i: the position after it.
RunEnd(t, i, C) ==
    LET stops == {j \in i..Len(t) : t[j] \notin C}
    IN  IF stops = {} THEN Len(t) + 1 ELSE Min(stops)

\* An alternation of literals: the position after the first alternative (in
\* the order of alts) that stands at i, or 0.
AltEnd(t, i, alts) ==
    LET hits == {k \in 1..Len(alts) : HasAt(t, i, alts[k])}
    IN  IF hits = {} THEN 0 ELSE i + Len(alts[Min(hits)])

(* ------------------------------------------------------------------ *)
(* re_links, line 49                                                   *)
(*   (https?:\/\/(?:www\.)?(?:i\.)?(?:imgur|gfycat|redd|streamable)    *)
(*    \.(?:com|it)\/(?:gallery/)?                                      *)
(*    (?:a\/[a-zA-Z0-9]+|(?:[a-zA-Z0-9_-]+)\.?(?:gifv|...|jpeg)?))     *)
(* An optional group is taken when it stands there: what follows it in *)
(* the pattern never starts like the group, so giving it back cannot   *)
(* turn a failure into a match.  The exception is "gallery/", which is *)
(* also a media id followed by "/": it is given back when nothing      *)
(* matches after it.                                                   *)
(* ------------------------------------------------------------------ *)

\* (?:a\/[a-zA-Z0-9]+|(?:[a-zA-Z0-9_-]+)\.?(?:gifv|webm|mp4|png|jpg|gif|jpeg)?)
LinkTailEnd(t, i) ==
    LET album == IF HasAt(t, i, L_a_slash) THEN RunEnd(t, i + 2, Alnum) ELSE 0
        id == RunEnd(t, i, IdChar)
        dot == Opt(t, id, L_dot)
        ext == AltEnd(t, dot, LinkExts)
    IN  IF album > i + 2 THEN album
        ELSE IF id = i THEN 0
        ELSE IF ext # 0 THEN ext
        ELSE dot

\* The path without the optional gallery/ group.
LinkPathEnd_without_gallery(t, i) == LinkTailEnd(t, i)

\* (?:gallery/)? and the tail
LinkPathEnd(t, i) ==
    LET g == IF HasAt(t, i, L_gallery) THEN LinkTailEnd(t, i + Len(L_gallery)) ELSE 0
    IN  IF g # 0 THEN g ELSE LinkTailEnd(t, i)

\* re_links matched at position p: the position after the match, or 0.
re_links(t, p) ==
    LET a == IF HasAt(t, p, L_http) THEN Opt(t, p + Len(L_http), L_s) ELSE 0
        b == IF a # 0 /\ HasAt(t, a, L_colon_slashes)
             THEN Opt(t, Opt(t, a + Len(L_colon_slashes), L_www), L_i)
             ELSE 0
        c == IF b # 0 THEN AltEnd(t, b, LinkHosts) ELSE 0
        d == IF c # 0 /\ HasAt(t, c, L_dot) THEN AltEnd(t, c + 1, LinkTlds) ELSE 0
    IN  IF d # 0 /\ HasAt(t, d, L_slash) THEN LinkPathEnd(t, d + 1) ELSE 0

\* re.findall(re_links, text), lines 219-221: its first element, <<>> when the
\* list is empty (a match is never the empty string).
findall_links(t) ==
    LET ps == {p \in 1..Len(t) : re_links(t, p) # 0}
    IN  IF ps = {} THEN <<>> ELSE SubSeq(t, Min(ps), re_links(t, Min(ps)) - 1)

(* ------------------------------------------------------------------ *)
(* re_subreddit, line 50:  (?:^|\W)(?:\/r\/([a-zA-Z0-9_]+))            *)
(* ------------------------------------------------------------------ *)

\* The name (group 1) of re_subreddit matched at position p, <<>> for no match.
\* "^" holds at the first position only; \W consumes one character.
re_subreddit(t, p) ==
    LET name(i) == IF HasAt(t, i, L_r) /\ RunEnd(t, i + Len(L_r), WordChar) > i + Len(L_r)
                   THEN SubSeq(t, i + Len(L_r), RunEnd(t, i + Len(L_r), WordChar) - 1)
                   ELSE <<>>
    IN  IF p = 1 /\ name(p) # <<>> THEN name(p)
        ELSE IF p <= Len(t) /\ t[p] \notin WordChar THEN name(p + 1)
        ELSE <<>>

\* re.findall(re_subreddit, text), lines 224-226: its first element, <<>> when
\* the list is empty.
findall_subreddit(t) ==
    LET ps == {p \in 1..Len(t) : re_subreddit(t, p) # <<>>}
    IN  IF ps = {} THEN <<>> ELSE re_subreddit(t, Min(ps))

(* ------------------------------------------------------------------ *)
(* v_reddit_links, line 51:                                            *)
(*   (https?:\/\/(?:www\.)?(?:v\.)?(?:redd.it)\/(?:.*?))(?:\s|$)       *)
(* comments_id, line 52:                                               *)
(*   https:\/\/(?:www\.|old\.)?reddit.com\/r\/(?:.*?)\/comments\/       *)
(*   then group 2, a lazy run of any characters, "/" and the rest      *)
(* ------------------------------------------------------------------ *)

\* v_reddit_links matched at p: the position after group 1, or 0.  The dot of
\* "redd.it" is unescaped and stands for any character; the lazy ".*?" ends
\* at the first blank or at the end of the text.
v_reddit_links(t, p) ==
    LET a == IF HasAt(t, p, L_http) THEN Opt(t, p + Len(L_http), L_s) ELSE 0
        b == IF a # 0 /\ HasAt(t, a, L_colon_slashes)
             THEN Opt(t, Opt(t, a + Len(L_colon_slashes), L_www), L_v)
             ELSE 0
    IN  IF b # 0 /\ HasAt(t, b, L_redd) /\ HasAt(t, b + Len(L_redd) + 1, L_it_slash)
        THEN RunEnd(t, b + Len(L_redd) + 1 + Len(L_it_slash), {c \in Range(t) : c \notin Space})
        ELSE 0

\* comments_id matched at p: the submission id (group 2), or "none".  The
\* id may be the empty string, so no match is a value of its own.
comments_id(t, p) ==
    LET a == IF HasAt(t, p, L_https)
             THEN (IF HasAt(t, p + Len(L_https), L_www) THEN p + Len(L_https) + Len(L_www)
                   ELSE Opt(t, p + Len(L_https), L_old))
             ELSE 0
        b == IF a # 0 /\ HasAt(t, a, L_reddit) /\ HasAt(t, a + Len(L_reddit) + 1, L_com_r)
             THEN a + Len(L_reddit) + 1 + Len(L_com_r)
             ELSE 0
        cs == {c \in b..Len(t) : HasAt(t, c, L_comments)
                                 /\ \E e \in (c + Len(L_comments))..Len(t) : t[e] = "/"}
    IN  IF b = 0 \/ cs = {} THEN "none"
        ELSE SubSeq(t, Min(cs) + Len(L_comments),
                    RunEnd(t, Min(cs) + Len(L_comments), {c \in Range(t) : c # "/"}) - 1)


(* ------------------------------------------------------------------ *)
(* The handlers' pure parts                                            *)
(* ------------------------------------------------------------------ *)

\* None, for a text-valued result
None == <<>>

\* str.endswith, line 72
endswith(s, suffix) == HasAt(s, Len(s) - Len(suffix) + 1, suffix)

\* str.replace, line 75: every occurrence, from the left, without overlap.
RECURSIVE replace(_, _, _)
replace(s, old, new) ==
    IF s = <<>> THEN <<>>
    ELSE IF HasAt(s, 1, old)
         THEN new \o replace(SubSeq(s, Len(old) + 1, Len(s)), old, new)
         ELSE <<Head(s)>> \o replace(Tail(s), old, new)

\* The answer of a listing call that finds n posts, best first: post <<q, k>>
\* is the k-th result of call number q of the handler.
Listing(q, n) == [k \in 1..n |-> <<q, k>>]

\* submissions[:3], line 87
ShownPosts == 3

\* hot(limit=5), line 172
HotLimit == 5

Take(s, n) == SubSeq(s, 1, IF Len(s) < n THEN Len(s) ELSE n)

\* A reply of the bot.  subject is the URL or the subreddit the reply names,
\* posts are the posts its lines format, in the order of the lines.
Reply(kind, subject, count, posts, footer) ==
    [kind |-> kind, subject |-> subject, count |-> count, posts |-> posts,
     footer |-> footer]

\* A call: of a function of the bot (invoked), or of the Reddit client (calls),
\* with its argument and the number of posts the client found.
Call(api, arg, found) == [api |-> api, arg |-> arg, found |-> found]

\* search_post with the footer shown from three posts on (">=" for ">").
search_post_footer_from_three(url, n1, n2) ==
    LET first == Listing(1, n1)
        again == Len(first) < 2 /\ endswith(url, L_mp4)
        url2 == IF again THEN replace(url, L_mp4, L_gifv) ELSE url
        submissions == IF again THEN Listing(2, n2) \o first ELSE first
        len_sub == Len(submissions)
    IN  [calls |-> IF again
                   THEN <<Call("search", L_url \o url, n1),
                          Call("search", L_url \o url2, n2)>>
                   ELSE <<Call("search", L_url \o url, n1)>>,
         submissions |-> submissions,
         replies |-> IF len_sub # 0
                     THEN <<Reply("search", url2, len_sub, Take(submissions, ShownPosts),
                                  len_sub >= ShownPosts)>>
                     ELSE <<>>]

\* search_post, lines 65-100, for a URL and the numbers of posts n1, n2 the
\* first and the second search find: the searches made (calls), the final
\* list of submissions and the replies sent.
search_post(url, n1, n2) ==
    LET first == Listing(1, n1)
        again == Len(first) < 2 /\ endswith(url, L_mp4)
        url2 == IF again THEN replace(url, L_mp4, L_gifv) ELSE url
        submissions == IF again THEN Listing(2, n2) \o first ELSE first
        len_sub == Len(submissions)
    IN  [calls |-> IF again
                   THEN <<Call("search", L_url \o url, n1),
                          Call("search", L_url \o url2, n2)>>
                   ELSE <<Call("search", L_url \o url, n1)>>,
         submissions |-> submissions,
         replies |-> IF len_sub # 0
                     THEN <<Reply("search", url2, len_sub, Take(submissions, ShownPosts),
                                  len_sub > ShownPosts)>>
                     ELSE <<>>]

\* peek_subreddit that sends its reply only when the listing holds a post.
peek_subreddit_silent_when_empty(subreddit, n) ==
    LET hot == Take(Listing(1, n), HotLimit)
    IN  [calls |-> <<Call("hot", subreddit, Len(hot))>>,
         submissions |-> <<>>,
         replies |-> IF Len(hot) = 0 THEN <<>>
                     ELSE <<Reply("peek", subreddit, Len(hot), hot, FALSE)>>]

\* peek_subreddit, lines 167-181, for a subreddit with n hot posts.
peek_subreddit(subreddit, n) ==
    LET hot == Take(Listing(1, n), HotLimit)
    IN  [calls |-> <<Call("hot", subreddit, Len(hot))>>,
         submissions |-> <<>>,
         replies |-> <<Reply("peek", subreddit, Len(hot), hot, FALSE)>>]

\* The URL of a video submission (submission.url, line 194).
SubmissionUrl == <<"h", "t", "t", "p", "s", ":", "/", "/", "v", ".", "r", "e", "d", "d", ".", "i", "t", "/", "v">>

\* What reddit.submission answers, lines 190-193: whether the submission is a
\* crosspost, and whether the submission finally consulted is a video.
Submissions == [crosspost : BOOLEAN, is_video : BOOLEAN]

\* get_vreddit_url, lines 184-194: the URL found (None when there is none) and
\* the submissions looked up.
get_vreddit_url(t, sub) ==
    LET vs == {p \in 1..Len(t) : v_reddit_links(t, p) # 0}
        cs == {p \in 1..Len(t) : comments_id(t, p) # "none"}
    IN  IF vs # {}
        THEN [url |-> SubSeq(t, Min(vs), v_reddit_links(t, Min(vs)) - 1), calls |-> <<>>]
        ELSE IF cs # {}
        THEN [url |-> IF sub.is_video THEN SubmissionUrl ELSE None,
              calls |-> IF sub.crosspost
                        THEN <<Call("submission", comments_id(t, Min(cs)), 1),
                               Call("submission", <<"p">>, 1)>>
                        ELSE <<Call("submission", comments_id(t, Min(cs)), 1)>>]
        ELSE [url |-> None, calls |-> <<>>]

\* The ways send_video can go: the download raises (caught, line 203), the
\* video is sent, or reply_video raises (line 208, not caught).
VideoOutcomes == {"download_failed", "sent", "upload_raised"}

\* send_video as one step, lines 197-209: the replies sent, whether an
\* exception leaves the function, and whether the file stays behind.
send_video(outcome) ==
    [replies |-> IF outcome = "download_failed"
                 THEN <<Reply("download_failed", None, 0, <<>>, FALSE)>>
                 ELSE IF outcome = "sent"
                 THEN <<Reply("video", None, 0, <<>>, FALSE)>>
                 ELSE <<>>,
     raised |-> outcome = "upload_raised"]

(* ------------------------------------------------------------------ *)
(* The message texts of the model: an optional URL head (scheme,       *)
(* prefixes, host) followed by at most MaxFrags fragments.             *)
(* ------------------------------------------------------------------ *)

MaxFrags == 2

\* The numbers of posts a listing call may find: 0..MaxPosts.
MaxPosts == 4

Schemes == {L_http \o L_colon_slashes, L_https, <<"f", "t", "p", ":", "/", "/">>}
MediaHeads ==
    {s \o p \o L_redd \o L_dot \o L_it \o L_slash :
        s \in Schemes, p \in {<<>>, L_www, L_i, L_v, L_www \o L_i}}
    \cup {L_https \o h \o L_slash :
            h \in {L_imgur \o L_dot \o L_com, L_gfycat \o L_dot \o L_com,
                   L_streamable \o L_dot \o L_com, L_redd \o L_dot \o L_com,
                   L_imgur \o L_dot \o L_it, L_imgur \o L_dot \o <<"o", "r", "g">>,
                   L_reddit \o L_dot \o L_com}}
CommentHeads ==
    {s \o p \o L_reddit \o L_dot \o L_com \o L_r \o <<"x">> \o L_comments \o c :
        s \in {L_http \o L_colon_slashes, L_https}, p \in {<<>>, L_www, L_old},
        c \in {<<"c", "/">>}}
    \cup {L_https \o L_reddit \o L_dot \o L_com \o L_r \o <<"x">> \o L_comments \o <<"c">>}
Heads == {<<>>} \cup MediaHeads \cup CommentHeads
Frags == {L_gallery, L_a_slash, <<"a", "b">>, <<"-">>, L_dot, L_mp4, L_dot \o L_mp4,
          <<" ">>, L_r, L_r \o <<"a", "_", "b">>}

RECURSIVE Paths(_)
Paths(n) == IF n = 0 THEN {<<>>}
            ELSE Paths(n - 1) \cup {f \o q : f \in Frags, q \in Paths(n - 1)}

Texts == {h \o q : h \in Heads, q \in Paths(MaxFrags)}

(* ------------------------------------------------------------------ *)
(* message_handler: one message, handled once                          *)
(* ------------------------------------------------------------------ *)

VARIABLES
    has_message,  \* update.message is not None (line 213)
    text,         \* update.message.text
    pc,           \* "received", then "done" (returned) or "raised"
    invoked,      \* the calls of send_video, search_post, peek_subreddit
    calls,        \* the calls of the Reddit client
    replies,      \* the replies sent to the chat
    submissions,  \* search_post's list of submissions when it ends
    \* send_video on the worker pool (SpecVideo)
    msgs,         \* the message of each handler: chat.id and message_id
    vpc,          \* where each handler is in send_video
    files,        \* the files under /tmp: <<path, video>> pairs
    opened,       \* the video in the file each handler has opened
    uploaded,     \* the video each handler has uploaded
    \* random_post and the More button (SpecRandom)
    sent,         \* the messages the bot has sent, oldest first
    last          \* what the last handler did

msg_vars == <<has_message, text, pc, invoked, calls, replies, submissions>>
video_vars == <<msgs, vpc, files, opened, uploaded>>
random_vars == <<sent, last>>
vars == <<msg_vars, video_vars, random_vars>>

\* The state of the parts of the bot a specification leaves out.
NoMessage ==
    /\ has_message = FALSE /\ text = None /\ pc = "idle" /\ invoked = <<>>
    /\ calls = <<>> /\ replies = <<>> /\ submissions = <<>>
NoVideo ==
    /\ msgs = <<>> /\ vpc = <<>> /\ files = {} /\ opened = <<>> /\ uploaded = <<>>
NoRandom ==
    /\ sent = <<>> /\ last = <<>>

Init ==
    /\ has_message \in BOOLEAN
    /\ text \in (IF has_message THEN Texts ELSE {None})
    /\ pc = "received"
    /\ invoked = <<>>
    /\ calls = <<>>
    /\ replies = <<>>
    /\ submissions = <<>>
    /\ NoVideo
    /\ NoRandom

\* The link and subreddit branches, lines 219-227, for the first link and the
\* first subreddit name found in the text.
link_branch(link, name, n1, n2) ==
    IF link # <<>>
    THEN [invoked |-> <<Call("search_post", link, 0)>>] @@ search_post(link, n1, n2)
    ELSE IF name # <<>>
    THEN [invoked |-> <<Call("peek_subreddit", name, 0)>>] @@ peek_subreddit(name, n1)
    ELSE [invoked |-> <<>>, calls |-> <<>>, submissions |-> <<>>, replies |-> <<>>]

\* The video branch, lines 215-217, for the answer v of get_vreddit_url.
video_branch(v, outcome) ==
    IF v.url # None
    THEN [invoked |-> <<Call("send_video", v.url, 0)>>] @@ send_video(outcome)
    ELSE [invoked |-> <<>>, replies |-> <<>>, raised |-> FALSE]

\* What the collaborators may answer to the handler of text t.  An answer
\* that is never asked for has one value, so that a run of the handler is
\* one state.
LookupAnswers(t) ==
    IF get_vreddit_url(t, [crosspost |-> FALSE, is_video |-> FALSE]).calls = <<>>
    THEN {[crosspost |-> FALSE, is_video |-> FALSE]}
    ELSE Submissions
VideoAnswers(v) == IF v.url = None THEN {"sent"} ELSE VideoOutcomes
FirstCounts(link, name) == IF link = <<>> /\ name = <<>> THEN {0} ELSE 0..MaxPosts
SecondCounts(link, n1) ==
    IF n1 < 2 /\ endswith(link, L_mp4) THEN 0..MaxPosts ELSE {0}

\* message_handler, lines 212-227.
message_handler ==
    /\ pc = "received"
    /\ IF ~has_message
       THEN /\ pc' = "done"
            /\ UNCHANGED <<invoked, calls, replies, submissions>>
       ELSE \E link \in {findall_links(text)}, name \in {findall_subreddit(text)} :
                \E sub \in LookupAnswers(text) :
                \E v \in {get_vreddit_url(text, sub)} :
                      \E outcome \in VideoAnswers(v), n1 \in FirstCounts(link, name) :
                      \E n2 \in SecondCounts(link, n1) :
                        LET video == video_branch(v, outcome)
                            rest == link_branch(link, name, n1, n2)
                        IN  IF video.raised
                            THEN /\ pc' = "raised"
                                 /\ invoked' = video.invoked
                                 /\ calls' = v.calls
                                 /\ replies' = video.replies
                                 /\ UNCHANGED submissions
                            ELSE /\ pc' = "done"
                                 /\ invoked' = video.invoked \o rest.invoked
                                 /\ calls' = v.calls \o rest.calls
                                 /\ replies' = video.replies \o rest.replies
                                 /\ submissions' = rest.submissions
    /\ UNCHANGED <<has_message, text, video_vars, random_vars>>

Next == message_handler

Spec == Init /\ [][Next]_vars

(* ------------------------------------------------------------------ *)
(* What the handler of the message did                                 *)
(* ------------------------------------------------------------------ *)

Handled == has_message /\ pc # "received"
Returned == has_message /\ pc = "done"
InvokedOf(fn) == SelectSeq(invoked, LAMBDA c : c.api = fn)
CallsOf(api) == SelectSeq(calls, LAMBDA c : c.api = api)
RepliesOf(kind) == SelectSeq(replies, LAMBDA r : r.kind = kind)
Max(S) == CHOOSE x \in S : \A y \in S : y <= x

(* ------------------------------------------------------------------ *)
(* C1: the reply of search_post                                        *)
(* ------------------------------------------------------------------ *)

\* C1: when search_post ends with a list of n >= 1 submissions, its one reply
\* lists the first min(n, 3) of them in the order of the list, and carries the
\* "Showing at most the three most upvoted" footer iff n > 3.
C1_TopThree ==
    (InvokedOf("search_post") # <<>> /\ Len(submissions) >= 1) =>
        \E n \in {Len(submissions)}, rs \in {RepliesOf("search")} :
            /\ Len(rs) = 1
            /\ Len(rs[1].posts) = (IF n < 3 THEN n ELSE 3)
            /\ \A k \in 1..Len(rs[1].posts) : rs[1].posts[k] = submissions[k]
            /\ (rs[1].footer <=> n > 3)

\* C1 witness: a search that ends with more than three posts was answered
\* with three lines and the footer.
C1_Witness ==
    /\ InvokedOf("search_post") # <<>>
    /\ Len(submissions) > 3
    /\ Len(RepliesOf("search")) = 1
    /\ RepliesOf("search")[1].footer
    /\ Len(RepliesOf("search")[1].posts) = 3

(* ------------------------------------------------------------------ *)
(* C3: calls and replies of a branch                                   *)
(* ------------------------------------------------------------------ *)

\* C3 as stated: a branch that runs (link search or subreddit peek) makes
\* exactly one call of the Reddit client and sends exactly one reply.
C3_OneCallOneReply ==
    (InvokedOf("search_post") # <<>> \/ InvokedOf("peek_subreddit") # <<>>) =>
        /\ Len(CallsOf("search")) + Len(CallsOf("hot")) = 1
        /\ Len(RepliesOf("search")) + Len(RepliesOf("peek")) = 1

\* C3 amended: the link search makes one search, and a second one exactly
\* when the first finds fewer than 2 posts and the URL ends with mp4; it
\* sends one reply when the searches found a post and none otherwise.  The
\* subreddit peek makes exactly one listing call and sends exactly one reply.
C3_CallsAndReplies ==
    /\ InvokedOf("search_post") # <<>> =>
        \E u \in {InvokedOf("search_post")[1].arg}, ss \in {CallsOf("search")} :
            /\ Len(InvokedOf("search_post")) = 1
            /\ Len(ss) \in {1, 2}
            /\ (Len(ss) = 2 <=> (ss[1].found < 2 /\ endswith(u, L_mp4)))
            /\ CallsOf("hot") = <<>>
            /\ RepliesOf("peek") = <<>>
            /\ Len(RepliesOf("search")) =
                 (IF \E k \in 1..Len(ss) : ss[k].found > 0 THEN 1 ELSE 0)
    /\ InvokedOf("peek_subreddit") # <<>> =>
            /\ Len(InvokedOf("peek_subreddit")) = 1
            /\ Len(CallsOf("hot")) = 1
            /\ CallsOf("search") = <<>>
            /\ Len(RepliesOf("peek")) = 1
            /\ RepliesOf("search") = <<>>

\* C3 witness: a link search that searched twice and sent no reply.
C3_Witness ==
    /\ InvokedOf("search_post") # <<>>
    /\ Len(CallsOf("search")) = 2
    /\ replies = <<>>

(* ------------------------------------------------------------------ *)
(* C5: the subreddit mention                                           *)
(* ------------------------------------------------------------------ *)

\* The positions of a "/r/" at the start of the text or right after a
\* non-word character, followed by at least one character of [a-zA-Z0-9_].
MentionStarts(t) ==
    {i \in 1..Len(t) : /\ HasAt(t, i, L_r)
                       /\ (i = 1 \/ t[i - 1] \notin WordChar)
                       /\ i + 3 <= Len(t)
                       /\ t[i + 3] \in WordChar}

\* The maximal run of [a-zA-Z0-9_] after the first such "/r/".
MentionName(t) ==
    LET i == Min(MentionStarts(t))
        j == Max({e \in (i + 3)..Len(t) : \A k \in (i + 3)..e : t[k] \in WordChar})
    IN  SubSeq(t, i + 3, j)

PeekedAs(t) ==
    /\ (InvokedOf("peek_subreddit") # <<>> <=> MentionStarts(t) # {})
    /\ InvokedOf("peek_subreddit") # <<>> =>
           InvokedOf("peek_subreddit") = <<Call("peek_subreddit", MentionName(t), 0)>>

\* C5 as stated: for a handled text in which no link matches, peek_subreddit
\* is called iff the text mentions a subreddit, with the mentioned name.
C5_PeekIffMention ==
    (Handled /\ findall_links(text) = <<>>) => PeekedAs(text)

\* C5, where the handler returned: the statement of C5 for the messages
\* whose handler was not ended by an exception.
C5_PeekIffMentionWhenReturned ==
    (Returned /\ findall_links(text) = <<>>) => PeekedAs(text)

(* ------------------------------------------------------------------ *)
(* C6: the media link                                                  *)
(* ------------------------------------------------------------------ *)

LinkPrefixes(hosts) ==
    {s \o w \o i \o h \o L_slash :
        s \in {L_http \o L_colon_slashes, L_https}, w \in {<<>>, L_www},
        i \in {<<>>, L_i}, h \in hosts}

\* An album path: a/<id>, the id of [a-zA-Z0-9].
IsAlbum(r) ==
    /\ Len(r) >= 3
    /\ HasAt(r, 1, L_a_slash)
    /\ \A k \in 3..Len(r) : r[k] \in Alnum

\* A media id of [a-zA-Z0-9_-] followed by one of the suffixes.
IsMedia(r, suffixes) ==
    \E k \in 1..Len(r) :
        /\ \A j \in 1..k : r[j] \in IdChar
        /\ SubSeq(r, k + 1, Len(r)) \in suffixes

\* The ends e of the URLs of a shape that start at p: one of the prefixes, one
\* of the path prefixes, then an album path or a media id with a suffix.
ShapeEnds(t, p, prefixes, pathPrefixes, suffixes) ==
    UNION {UNION {{e \in (p + Len(pre) + Len(g))..Len(t) :
                      \E r \in {SubSeq(t, p + Len(pre) + Len(g), e)} :
                          IsAlbum(r) \/ IsMedia(r, suffixes)} :
                  g \in {x \in pathPrefixes : HasAt(t, p + Len(pre), x)}} :
           pre \in {x \in prefixes : HasAt(t, p, x)}}

\* The first URL of a shape in the text: the leftmost, and the longest from
\* there; <<>> when the text holds none.
FirstShaped(t, prefixes, pathPrefixes, suffixes) ==
    LET ps == {p \in 1..Len(t) :
                  t[p] = "h" /\ ShapeEnds(t, p, prefixes, pathPrefixes, suffixes) # {}}
    IN  IF ps = {} THEN <<>>
        ELSE SubSeq(t, Min(ps), Max(ShapeEnds(t, Min(ps), prefixes, pathPrefixes, suffixes)))

DotExts == {L_dot \o LinkExts[k] : k \in 1..Len(LinkExts)}

\* http or https, optional www. and i., one of the four names under .com or
\* under .it, and "/".
HostPrefixes ==
    LinkPrefixes({n \o L_dot \o d : n \in {L_imgur, L_gfycat, L_redd, L_streamable},
                                    d \in {L_com, L_it}})

\* The shapes as C6 states them: after the host, a/<id> or a media id with an
\* optional extension.
StatedSuffixes == {<<>>} \cup DotExts
FirstStatedLink(t) == FirstShaped(t, HostPrefixes, {<<>>}, StatedSuffixes)

\* The shapes as amended: an optional gallery/ before the path, and a media id
\* followed by an optional dot and, after the dot, an optional extension.
AmendedPathPrefixes == {<<>>, L_gallery}
AmendedSuffixes == {<<>>, L_dot} \cup DotExts
FirstAmendedLink(t) ==
    FirstShaped(t, HostPrefixes, AmendedPathPrefixes, AmendedSuffixes)

SearchedAs(link) ==
    IF link = <<>> THEN InvokedOf("search_post") = <<>>
    ELSE InvokedOf("search_post") = <<Call("search_post", link, 0)>>

C7_BranchesIndependent ==
    Handled =>
        \E link \in {findall_links(text)}, name \in {findall_subreddit(text)} :
            /\ Len(InvokedOf("search_post")) + Len(InvokedOf("peek_subreddit")) <= 1
            /\ InvokedOf("peek_subreddit") # <<>> => link = <<>>
            /\ link # <<>> => InvokedOf("search_post") # <<>>
            /\ (link = <<>> /\ name # <<>>) => InvokedOf("peek_subreddit") # <<>>

\* C7, where the handler returned: the statement of C7 for the messages whose
\* video branch did not raise.
C7_BranchesWhenReturned ==
    Returned =>
        \E link \in {findall_links(text)}, name \in {findall_subreddit(text)} :
            /\ Len(InvokedOf("search_post")) + Len(InvokedOf("peek_subreddit")) <= 1
            /\ InvokedOf("peek_subreddit") # <<>> => link = <<>>
            /\ link # <<>> => InvokedOf("search_post") # <<>>
            /\ (link = <<>> /\ name # <<>>) => InvokedOf("peek_subreddit") # <<>>

(* ------------------------------------------------------------------ *)
(* C8: the second search                                               *)
(* ------------------------------------------------------------------ *)

\* The URL with only its final mp4 changed to gifv.
GifvVersion(u) == SubSeq(u, 1, Len(u) - Len(L_mp4)) \o L_gifv

\* C8 as stated: a second search is made iff the first finds fewer than 2
\* posts and the URL ends with mp4; it asks for the gifv version of the URL,
\* its posts come before those of the first, the reply counts them all, and
\* no reply is sent when there are none.
C8_SecondSearch ==
    InvokedOf("search_post") # <<>> =>
        \E u \in {InvokedOf("search_post")[1].arg}, ss \in {CallsOf("search")} :
            /\ (Len(ss) = 2 <=> (ss[1].found < 2 /\ endswith(u, L_mp4)))
            /\ Len(ss) = 2 => ss[2].arg = L_url \o GifvVersion(u)
            /\ Len(ss) = 2 =>
                 submissions = Listing(2, ss[2].found) \o Listing(1, ss[1].found)
            /\ \A k \in 1..Len(RepliesOf("search")) :
                 RepliesOf("search")[k].count = Len(submissions)
            /\ (Len(submissions) = 0 => replies = RepliesOf("download_failed") \o RepliesOf("video"))
            /\ (Len(submissions) > 0 => Len(RepliesOf("search")) = 1)

(* ------------------------------------------------------------------ *)
(* send_video on the worker pool: every handler is registered with     *)
(* run_async=True (lines 244-255), so the handlers of two messages run *)
(* at the same time and their file operations interleave.              *)
(* ------------------------------------------------------------------ *)

\* The handlers that run at the same time.
NumHandlers == 2
\* chat.id is in 1..MaxChatId, message_id in 1..MaxMessageId.
MaxChatId == 11
MaxMessageId == 11

Handlers == 1..NumHandlers
Messages == [chat_id : 1..MaxChatId, message_id : 1..MaxMessageId]

DigitChars == <<"0", "1", "2", "3", "4", "5", "6", "7", "8", "9">>

\* "%s" of an integer, line 198
RECURSIVE str(_)
str(n) ==
    IF n < 0 THEN <<"-">> \o str(-n)
    ELSE IF n < 10 THEN <<DigitChars[n + 1]>>
    ELSE str(n \div 10) \o <<DigitChars[(n % 10) + 1]>>

\* "/tmp/%s%s.mp4" % (update.message.chat.id, update.message.message_id)
filename(m) == <<"/", "t", "m", "p", "/">> \o str(m.chat_id) \o str(m.message_id) \o L_dot \o L_mp4

Paths_ == {f[1] : f \in files}
FileAt(path) == CHOOSE f \in files : f[1] = path

InitVideo ==
    /\ msgs \in {m \in [Handlers -> Messages] :
                    \A g, h \in Handlers : g # h => m[g] # m[h]}
    /\ vpc = [h \in Handlers |-> "start"]
    /\ files = {}
    /\ opened = [h \in Handlers |-> 0]
    /\ uploaded = [h \in Handlers |-> 0]
    /\ NoMessage
    /\ NoRandom

\* ydl.download([url]), lines 200-205.  A download that raises leaves no file
\* and ends send_video with the "Failed to download video." reply.
DownloadFails(h) ==
    /\ vpc[h] = "start"
    /\ vpc' = [vpc EXCEPT ![h] = "download_failed"]
    /\ UNCHANGED <<msgs, files, opened, uploaded>>
    /\ UNCHANGED <<msg_vars, random_vars>>

\* A download that succeeds leaves a file at the handler's path: the
\* handler's video, or, when a file is there already, that file as it is
\* (the downloader may take it for the finished download).
Download(h) ==
    /\ vpc[h] = "start"
    /\ vpc' = [vpc EXCEPT ![h] = "downloaded"]
    /\ \/ files' = {f \in files : f[1] # filename(msgs[h])}
                      \cup {<<filename(msgs[h]), h>>}
       \/ /\ filename(msgs[h]) \in Paths_
          /\ files' = files
    /\ UNCHANGED <<msgs, opened, uploaded>>
    /\ UNCHANGED <<msg_vars, random_vars>>

\* open(filename, "rb"), line 207: FileNotFoundError when the file is gone.
Open(h) ==
    /\ vpc[h] = "downloaded"
    /\ IF filename(msgs[h]) \in Paths_
       THEN /\ opened' = [opened EXCEPT ![h] = FileAt(filename(msgs[h]))[2]]
            /\ vpc' = [vpc EXCEPT ![h] = "opened"]
       ELSE /\ vpc' = [vpc EXCEPT ![h] = "open_raised"]
            /\ UNCHANGED opened
    /\ UNCHANGED <<msgs, files, uploaded>>
    /\ UNCHANGED <<msg_vars, random_vars>>

\* reply_video, line 208: the video is sent, or the call raises and the
\* exception leaves send_video (the with block closes the file).
Upload(h) ==
    /\ vpc[h] = "opened"
    /\ \/ /\ vpc' = [vpc EXCEPT ![h] = "uploaded"]
          /\ uploaded' = [uploaded EXCEPT ![h] = opened[h]]
       \/ /\ vpc' = [vpc EXCEPT ![h] = "upload_raised"]
          /\ UNCHANGED uploaded
    /\ UNCHANGED <<msgs, files, opened>>
    /\ UNCHANGED <<msg_vars, random_vars>>

\* os.remove(filename), line 209: FileNotFoundError when the file is gone.
Remove(h) ==
    /\ vpc[h] = "uploaded"
    /\ IF filename(msgs[h]) \in Paths_
       THEN /\ files' = {f \in files : f[1] # filename(msgs[h])}
            /\ vpc' = [vpc EXCEPT ![h] = "sent"]
       ELSE /\ vpc' = [vpc EXCEPT ![h] = "remove_raised"]
            /\ UNCHANGED files
    /\ UNCHANGED <<msgs, opened, uploaded>>
    /\ UNCHANGED <<msg_vars, random_vars>>

NextVideo ==
    \/ \E h \in Handlers : DownloadFails(h)
    \/ \E h \in Handlers : Download(h)
    \/ \E h \in Handlers : Open(h)
    \/ \E h \in Handlers : Upload(h)
    \/ \E h \in Handlers : Remove(h)

SpecVideo == InitVideo /\ [][NextVideo]_vars

\* send_video has ended for the handler, by a return or by an exception.
Finished(h) ==
    vpc[h] \in {"download_failed", "sent", "open_raised", "upload_raised", "remove_raised"}
\* The handler has a file at its path that it will still open, upload or remove.
Using(h) == vpc[h] \in {"downloaded", "opened", "uploaded"}

\* C4 as stated: two handlers of messages with different (chat id, message
\* id) pairs never use the same path at the same time, no handler uploads a
\* video another handler downloaded, and no handler finds its file gone.
C4_NoSharedFile ==
    \A g, h \in Handlers :
        (g # h /\ msgs[g] # msgs[h]) =>
            /\ (Using(g) /\ Using(h)) => filename(msgs[g]) # filename(msgs[h])
            /\ uploaded[h] \in {0, h}
            /\ vpc[h] \notin {"open_raised", "remove_raised"}

\* C9 as stated, for a handler whose path no other handler shares: when
\* send_video has ended, no file is left at the path of the message, and
\* after a failed download the file was never opened.
C9_NoFileLeft ==
    \A h \in Handlers :
        (Finished(h) /\ \A g \in Handlers \ {h} : filename(msgs[g]) # filename(msgs[h])) =>
            /\ filename(msgs[h]) \notin Paths_
            /\ vpc[h] = "download_failed" => opened[h] = 0

(* ------------------------------------------------------------------ *)
(* random_post: the /r command and the More button                     *)
(* ------------------------------------------------------------------ *)

\* The messages the bot may have sent.
MaxSent == 3
\* The chats are 1..NumChats.
NumChats == 2

Usernames == {"ann", "bob"}
CommandTexts == {<<"/", "r", " ", "a", "b">>, <<"/", "r", " ", "x">>, <<"/", "r">>}

\* str.split(" "), line 108
RECURSIVE split(_)
split(s) ==
    LET blanks == {i \in 1..Len(s) : s[i] = " "}
    IN  IF blanks = {} THEN <<s>>
        ELSE <<SubSeq(s, 1, Min(blanks) - 1)>> \o split(SubSeq(s, Min(blanks) + 1, Len(s)))

\* What the Reddit client answers to random_post: subreddit.random() returns
\* a post, returns None, or raises ClientException; hot(limit=25) then finds
\* some posts or none (lines 110-115).
RandomAnswers ==
    {[random |-> "post", hot |-> 0], [random |-> "none", hot |-> 0],
     [random |-> "ClientException", hot |-> 0], [random |-> "ClientException", hot |-> 1]}
\* The client is not asked when the command names no subreddit.
Unasked == [random |-> "unasked", hot |-> 0]
CommandAnswers(t) == IF Len(split(t)) < 2 THEN {Unasked} ELSE RandomAnswers

\* update.message of a command, None for the update of a button press;
\* more of a button press, None for a command.
Message(chat, t) == [present |-> TRUE, chat |-> chat, text |-> t]
NoUpdateMessage == [present |-> FALSE, chat |-> 0, text |-> None]
More(subreddit, chat_id, username) ==
    [present |-> TRUE, subreddit |-> subreddit, chat_id |-> chat_id, username |-> username]
NoMore == [present |-> FALSE, subreddit |-> None, chat_id |-> 0, username |-> ""]

\* A message with a random post: the subreddit it names, who asked for it (""
\* for the sender of the command), and the callback data of its More button.
Post(chat, subreddit, requested_by, callback) ==
    [chat |-> chat, subreddit |-> subreddit, requested_by |-> requested_by,
     callback |-> callback]

Did(raised, read_message, new) ==
    [raised |-> raised, read_message |-> read_message, new |-> new]

\* random_post, lines 103-150: the exception that ends it ("" for a return),
\* whether it read update.message, and the messages it sent.
random_post(message, more, answer) ==
    LET parts == split(message.text)
        subreddit == IF more.present THEN more.subreddit ELSE parts[2]
    IN  IF ~more.present /\ Len(parts) < 2
        THEN Did("IndexError", TRUE, <<>>)
        ELSE IF answer.random = "ClientException" /\ answer.hot = 0
        THEN Did("IndexError", ~more.present, <<>>)
        ELSE IF answer.random = "none"
        THEN \* update.message.reply_test: no attribute of that name, and
             \* update.message is None for a button press
             Did("AttributeError", TRUE, <<>>)
        ELSE IF more.present
        THEN Did("", FALSE, <<Post(more.chat_id, subreddit, more.username, subreddit)>>)
        ELSE Did("", TRUE, <<Post(message.chat, subreddit, "", subreddit)>>)

\* more_button, lines 153-164, for a press by username of the More button of
\* the sent message pressed.
more_button(pressed, username, answer) ==
    random_post(NoUpdateMessage, More(pressed.callback, pressed.chat, username), answer)

Last(handler, did, answer, pressed, username) ==
    [handler |-> handler, raised |-> did.raised, read_message |-> did.read_message,
     new |-> Len(did.new), answer |-> answer.random, pressed |-> pressed,
     username |-> username]

InitRandom ==
    /\ sent = <<>>
    /\ last = Last("none", Did("", FALSE, <<>>), Unasked, 0, "")
    /\ NoMessage
    /\ NoVideo

\* The handler of the /r command (line 246) runs for a command message.
RandomCommand ==
    /\ Len(sent) < MaxSent
    /\ \E chat \in 1..NumChats, t \in CommandTexts :
         \E answer \in CommandAnswers(t) :
         \E did \in {random_post(Message(chat, t), NoMore, answer)} :
            /\ sent' = sent \o did.new
            /\ last' = Last("random_post", did, answer, 0, "")
    /\ UNCHANGED <<msg_vars, video_vars>>

\* The handler of a button press (line 255) runs for a press of the More
\* button of a message the bot has sent.
MoreButton ==
    /\ Len(sent) < MaxSent
    /\ \E i \in 1..Len(sent), username \in Usernames, answer \in RandomAnswers :
         \E did \in {more_button(sent[i], username, answer)} :
            /\ sent' = sent \o did.new
            /\ last' = Last("more_button", did, answer, i, username)
    /\ UNCHANGED <<msg_vars, video_vars>>

NextRandom == RandomCommand \/ MoreButton

SpecRandom == InitRandom /\ [][NextRandom]_vars

\* C2 as stated: when random_post obtains no post, the handler ends without
\* an exception and has sent nothing but the "Invalid subreddit" reply; the
\* reply is no message of the model, so no message was added.
C2_NoPostIsCaught ==
    (last.handler \in {"random_post", "more_button"} /\ last.answer = "none") =>
        /\ last.raised = ""
        /\ last.new = 0

\* C10 as stated: every press of a More button adds exactly one message, in
\* the chat of the pressed button, with a post of the subreddit of the button,
\* requested by the presser, with a More button for the same subreddit; and
\* the press does not read update.message.
C10_MoreAddsOnePost ==
    last.handler = "more_button" =>
        /\ last.new = 1
        /\ ~last.read_message
        /\ sent[Len(sent)] = Post(sent[last.pressed].chat, sent[last.pressed].callback,
                                  last.username, sent[last.pressed].callback)

====
